---- MODULE Spec2Model ----
(***************************************************************************)
(* Geometry extraction pipeline of the DWG analyzer:                       *)
(*   enhanced_dwg_parser.py  EnhancedDWGParser, parse_dwg_with_enhanced_   *)
(*                           parser, calculate_polygon_area                *)
(*   direct_dwg_parser.py    parse_dwg_file                                *)
(*                                                                         *)
(* Representation.                                                         *)
(*  - bytes objects are sequences of 0..255; Python's 0-based half-open    *)
(*    slices are taken with Slice.                                         *)
(*  - str objects are sequences of string pieces, '' is <<>>, + is \o.     *)
(*  - dicts are functions on their keys ('k' in d  is  "k" \in DOMAIN d).  *)
(*  - a coordinate is an integer count of a unit that is fixed per source: *)
(*    tenths for the room templates and the drawing entities, 2^-1054 for  *)
(*    the (denormal) doubles decoded from the buffer.  Arithmetic is exact;*)
(*    IEEE rounding of sums and products is outside the model.  A halved   *)
(*    value is kept as [whole, half] so that /2.0 loses nothing.           *)
(***************************************************************************)
EXTENDS Integers, Sequences, FiniteSets, TLC

VARIABLES
  file,        \* the file behind file_path: [exists, data]
  lib,         \* the dxfgrabber capability: [state, modelspace]
  pc,          \* position of the single thread in the call chain
  analysis,    \* the record printed by parse_dwg_with_enhanced_parser
  calls,       \* history: the strategies invoked by extract_geometry_data
  outcome,     \* history: strategy name -> the list it returned
  data,        \* _try_binary_analysis: the bytes read from the file
  scan_i,      \* _find_coordinate_patterns: loop variable i
  patterns,    \* _find_coordinate_patterns: patterns
  visited,     \* history: offsets i whose loop body was entered
  contributed, \* history: offsets i that appended to patterns
  zones,       \* the return value of extract_geometry_data
  valid_zones, \* the return value of parse_dwg_with_enhanced_parser
  results,     \* the return value of parse_dwg_file
  raised,      \* an exception left extract_geometry_data
  arg_points,  \* a direct call of calculate_polygon_area: its argument
  ret_area     \* a direct call of calculate_polygon_area: its return value

vars == << file, lib, pc, analysis, calls, outcome, data, scan_i,
           patterns, visited, contributed, zones, valid_zones, results,
           raised, arg_points, ret_area >>

-----------------------------------------------------------------------------
(* Bounds of the model *)

MaxWords == 19       \* 4-byte words in a generated file body
MaxBad == 1          \* words of a body that are not zero
MaxTail == 1         \* bytes after the last whole word
MaxEntities == 2     \* entities in a drawing's modelspace
MaxHeaderBody == 12  \* zero words after a signature header
MaxRejected == 1     \* zones of one call on which shapely's Polygon raises

-----------------------------------------------------------------------------
(* Python built-ins *)

None == "None"

\* the value of a dict variable that has not been assigned yet
Unset == [unset |-> TRUE]

Min2(a, b) == IF a <= b THEN a ELSE b

Max2(a, b) == IF a >= b THEN a ELSE b

\* s[a:b] for 0 <= a, 0 <= b
Slice(s, a, b) == SubSeq(s, a + 1, Min2(b, Len(s)))

abs(x) == IF x < 0 THEN -x ELSE x

\* min(xs), max(xs) of a non-empty list
RECURSIVE min(_)
min(xs) == IF Len(xs) = 1 THEN xs[1] ELSE Min2(xs[1], min(Tail(xs)))

RECURSIVE max(_)
max(xs) == IF Len(xs) = 1 THEN xs[1] ELSE Max2(xs[1], max(Tail(xs)))

\* a string literal
S(text) == << text >>

Digits == << "0", "1", "2", "3", "4", "5", "6", "7", "8", "9" >>

\* str(n) for n >= 0
RECURSIVE str(_)
str(n) == IF n < 10 THEN << Digits[n + 1] >>
          ELSE str(n \div 10) \o << Digits[(n % 10) + 1] >>

ascii ==
  << "<NUL>", "<SOH>", "<STX>", "<ETX>", "<EOT>", "<ENQ>", "<ACK>", "<BEL>",
     "<BS>", "<HT>", "<LF>", "<VT>", "<FF>", "<CR>", "<SO>", "<SI>",
     "<DLE>", "<DC1>", "<DC2>", "<DC3>", "<DC4>", "<NAK>", "<SYN>", "<ETB>",
     "<CAN>", "<EM>", "<SUB>", "<ESC>", "<FS>", "<GS>", "<RS>", "<US>",
     " ", "!", "\"", "#", "$", "%", "&", "'",
     "(", ")", "*", "+", ",", "-", ".", "/",
     "0", "1", "2", "3", "4", "5", "6", "7",
     "8", "9", ":", ";", "<", "=", ">", "?",
     "@", "A", "B", "C", "D", "E", "F", "G",
     "H", "I", "J", "K", "L", "M", "N", "O",
     "P", "Q", "R", "S", "T", "U", "V", "W",
     "X", "Y", "Z", "[", "\\", "]", "^", "_",
     "<GRAVE>", "a", "b", "c", "d", "e", "f", "g",
     "h", "i", "j", "k", "l", "m", "n", "o",
     "p", "q", "r", "s", "t", "u", "v", "w",
     "x", "y", "z", "{", "|", "}", "~", "<DEL>" >>

\* the byte of an ASCII character
ord(c) == CHOOSE b \in 0..127 : ascii[b + 1] = c

\* a bytes literal b'...' given character by character
bytes(chars) == [k \in 1..Len(chars) |-> ord(chars[k])]

\* bs.decode('ascii', errors='ignore'): bytes above 127 are dropped
RECURSIVE decode_ascii_ignore(_)
decode_ascii_ignore(bs) ==
  IF bs = << >> THEN << >>
  ELSE (IF bs[1] < 128 THEN << ascii[bs[1] + 1] >> ELSE << >>)
       \o decode_ascii_ignore(Tail(bs))

HexDigits == << "0", "1", "2", "3", "4", "5", "6", "7",
                "8", "9", "a", "b", "c", "d", "e", "f" >>

\* bs.hex()
hex(bs) == [k \in 1..(2 * Len(bs)) |->
              LET b == bs[(k + 1) \div 2]
              IN  IF k % 2 = 1 THEN HexDigits[(b \div 16) + 1]
                               ELSE HexDigits[(b % 16) + 1]]

-----------------------------------------------------------------------------
(* EnhancedDWGParser.__init__ and analyze_dwg_file *)

dwg_version_signatures ==
     (bytes(<<"A","C","1","0","2","7">>) :> S("AutoCAD 2013"))
  @@ (bytes(<<"A","C","1","0","2","4">>) :> S("AutoCAD 2010"))
  @@ (bytes(<<"A","C","1","0","2","1">>) :> S("AutoCAD 2007"))
  @@ (bytes(<<"A","C","1","0","1","8">>) :> S("AutoCAD 2004"))
  @@ (bytes(<<"A","C","1","0","1","5">>) :> S("AutoCAD 2000"))
  @@ (bytes(<<"A","C","1","0","1","4">>) :> S("AutoCAD R14"))
  @@ (bytes(<<"A","C","1","0","1","2">>) :> S("AutoCAD R13"))
  @@ (bytes(<<"A","C","1","0","0","9">>) :> S("AutoCAD R12"))
  @@ (bytes(<<"A","C","1","0","0","6">>) :> S("AutoCAD R10"))
  @@ (bytes(<<"A","C","1","0","0","4">>) :> S("AutoCAD R9"))
  @@ (bytes(<<"A","C","1","0","0","2">>) :> S("AutoCAD R2.6"))
  @@ (bytes(<<"A","C","1","0","0","1">>) :> S("AutoCAD R2.5"))

\* open(file_path, 'rb') raises when the path cannot be opened
OpenFails(f) == ~f.exists

IOErrorText == S("[Errno 2] No such file or directory")

HeaderLen == 32

SignatureLen == 6

\* analyze_dwg_file rejecting a header of exactly 6 bytes (<= for <)
analyze_dwg_file_off_by_one(f) ==
  IF OpenFails(f)
  THEN [error |-> S("Failed to analyze file: ") \o IOErrorText]
  ELSE LET header == Slice(f.data, 0, HeaderLen)
       IN  IF Len(header) <= SignatureLen
           THEN [error |-> S("File too small to be a valid DWG file")]
           ELSE LET version_code == Slice(header, 0, SignatureLen)
                    version ==
                      IF version_code \in DOMAIN dwg_version_signatures
                      THEN dwg_version_signatures[version_code]
                      ELSE S("Unknown (")
                           \o decode_ascii_ignore(version_code) \o S(")")
                IN  [is_dwg |-> TRUE,
                     version |-> version,
                     version_code |-> decode_ascii_ignore(version_code),
                     file_size |-> Len(f.data),
                     header_hex |-> hex(header)]

analyze_dwg_file(f) ==
  IF OpenFails(f)
  THEN [error |-> S("Failed to analyze file: ") \o IOErrorText]
  ELSE LET header == Slice(f.data, 0, HeaderLen)
       IN  IF Len(header) < SignatureLen
           THEN [error |-> S("File too small to be a valid DWG file")]
           ELSE LET version_code == Slice(header, 0, SignatureLen)
                    version ==
                      IF version_code \in DOMAIN dwg_version_signatures
                      THEN dwg_version_signatures[version_code]
                      ELSE S("Unknown (")
                           \o decode_ascii_ignore(version_code) \o S(")")
                IN  [is_dwg |-> TRUE,
                     version |-> version,
                     version_code |-> decode_ascii_ignore(version_code),
                     file_size |-> Len(f.data),
                     header_hex |-> hex(header)]

\* a float that is a whole number, and a whole number divided by 2.0
whole(n) == [whole |-> n, half |-> 0]

halved(n) == [whole |-> n \div 2, half |-> n % 2]

-----------------------------------------------------------------------------
(* Exceptions: the outcome of running a block of code *)

Return(v) == [exc |-> FALSE, val |-> v]

Raise(e) == [exc |-> TRUE, val |-> e]

\* dict.get(key, default)
get(d, key, default) == IF key \in DOMAIN d THEN d[key] ELSE default

-----------------------------------------------------------------------------
(* _try_dxfgrabber *)

\* the entities of drawing.modelspace() that become zones, in order
RECURSIVE dxf_zones_of(_)
dxf_zones_of(entities) ==
  IF entities = << >> THEN << >>
  ELSE LET entity == entities[1]
           keep ==
             /\ "dxftype" \in DOMAIN entity
             /\ entity.dxftype = "LWPOLYLINE"
             /\ "is_closed" \in DOMAIN entity
             /\ entity.is_closed
             /\ "points" \in DOMAIN entity
             /\ Len(entity.points) >= 3
           zone ==
             [points |-> [k \in 1..Len(entity.points) |->
                            << entity.points[k][1], entity.points[k][2] >>],
              layer  |-> get(entity, "layer", S("0")),
              type   |-> S("LWPOLYLINE"),
              source |-> S("dxfgrabber")]
       IN  (IF keep THEN << zone >> ELSE << >>)
           \o dxf_zones_of(Tail(entities))

\* the body of the try block: import, readfile, the modelspace loop
dxfgrabber_body(l) ==
  IF l.state = "absent" THEN Raise("ImportError")
  ELSE IF l.state = "throws" THEN Raise("readfile failed")
  ELSE Return(dxf_zones_of(l.modelspace))

\* _try_dxfgrabber without its except clause
_try_dxfgrabber_uncaught(l) == dxfgrabber_body(l)

\* except Exception: return []
_try_dxfgrabber(l) ==
  LET r == dxfgrabber_body(l)
  IN  IF r.exc THEN Return(<< >>) ELSE r

-----------------------------------------------------------------------------
(* _try_binary_analysis and _find_coordinate_patterns *)

\* with open(file_path, 'rb') as f: data = f.read()
read_file(f) == IF OpenFails(f) THEN Raise("IOError") ELSE Return(f.data)

\* The bounds -1000000 < v < 1000000 on the bits of a double:
\* 1000000 = 2^19 * (1 + 7433/8192), so its biased exponent is 1023 + 19 and
\* the top 20 bits of its mantissa are 7433 * 128, the low 32 bits zero.
LimitExp == 1042

LimitMantissa == 951424

\* struct.unpack('<d', b)[0]: the fields of the little-endian double
unpack_d(b) ==
  IF Len(b) # 8 THEN Raise("struct.error")
  ELSE Return([neg |-> b[8] >= 128,
               exp |-> (b[8] % 128) * 16 + (b[7] \div 16),
               mhi |-> (b[7] % 16) * 65536 + b[6] * 256 + b[5],
               lo  |-> << b[1], b[2], b[3], b[4] >>])

\* -1000000 < v < 1000000 (false for NaN and the infinities, exp = 2047)
in_range(v) ==
  \/ v.exp < LimitExp
  \/ v.exp = LimitExp /\ v.mhi < LimitMantissa

\* the value of a double of exponent field 0, in units of 2^-1054
number(v) ==
  LET magnitude == v.mhi * 4096 + v.lo[4] * 16 + (v.lo[3] \div 16)
  IN  IF v.neg THEN -magnitude ELSE magnitude

WindowLen == 32

PairStep == 8

\* the loop over j of one window, from j on; a raise ends the window
RECURSIVE window_from(_, _, _, _)
window_from(d, i, j, coords) ==
  IF j >= WindowLen THEN Return(coords)
  ELSE IF i + j + 8 <= Len(d)
       THEN LET x == unpack_d(Slice(d, i + j, i + j + 8))
                y == unpack_d(Slice(d, i + j + 8, i + j + 16))
            IN  IF x.exc THEN x
                ELSE IF y.exc THEN y
                ELSE window_from(d, i, j + PairStep,
                       IF in_range(x.val) /\ in_range(y.val)
                       THEN Append(coords, << number(x.val), number(y.val) >>)
                       ELSE coords)
       ELSE window_from(d, i, j + PairStep, coords)

\* the body of the inner try block at offset i: the pairs, and the append
scan_window(d, i, pats) ==
  LET r == window_from(d, i, 0, << >>)
  IN  IF r.exc THEN r
      ELSE Return(IF Len(r.val) >= 3 THEN Append(pats, r.val) ELSE pats)

Stride == 4

PatternLimit == 10

ZoneLimit == 5

\* the zones of coordinate_patterns[:5], from index k on
RECURSIVE binary_zones_from(_, _)
binary_zones_from(pats, k) ==
  IF k >= Len(Slice(pats, 0, ZoneLimit)) THEN << >>
  ELSE LET pattern == pats[k + 1]
       IN  (IF Len(pattern) >= 3
            THEN << [points |-> pattern,
                     layer  |-> S("EXTRACTED_") \o str(k),
                     type   |-> S("BINARY_EXTRACTED"),
                     source |-> S("binary_analysis")] >>
            ELSE << >>)
           \o binary_zones_from(pats, k + 1)

\* binary_zones without the slice [:5]
binary_zones_unlimited(pats) ==
  [k \in 1..Len(pats) |->
     [points |-> pats[k],
      layer  |-> S("EXTRACTED_") \o str(k - 1),
      type   |-> S("BINARY_EXTRACTED"),
      source |-> S("binary_analysis")]]

binary_zones(pats) == IF pats # << >> THEN binary_zones_from(pats, 0) ELSE << >>

-----------------------------------------------------------------------------
(* _generate_realistic_zones; widths and heights in tenths *)

room_configs ==
  << [name |-> <<"S","a","l","o","n"," ","P","r","i","n","c","i","p","a","l">>,
      width |-> 75, height |-> 52, type |-> S("Living Room")],
     [name |-> <<"C","u","i","s","i","n","e">>,
      width |-> 48, height |-> 36, type |-> S("Kitchen")],
     [name |-> <<"C","h","a","m","b","r","e"," ","1">>,
      width |-> 42, height |-> 38, type |-> S("Bedroom")],
     [name |-> <<"C","h","a","m","b","r","e"," ","2">>,
      width |-> 38, height |-> 35, type |-> S("Bedroom")],
     [name |-> <<"S","a","l","l","e"," ","d","e"," ","B","a","i","n">>,
      width |-> 28, height |-> 22, type |-> S("Bathroom")],
     [name |-> <<"C","o","u","l","o","i","r">>,
      width |-> 80, height |-> 15, type |-> S("Corridor")],
     [name |-> <<"E","n","t","r","e","e">>,
      width |-> 25, height |-> 20, type |-> S("Entrance")] >>

RoomLimit == 5

\* the gap 0.5 and the grid pitches 6.0 and 4.0, in tenths
Gap == 5

GridX == 60

GridY == 40

\* c.upper() of one character
upper_char(c) ==
  LET b == ord(c)
  IN  IF b >= ord("a") /\ b <= ord("z") THEN ascii[b - 32 + 1] ELSE c

\* name.upper().replace(' ', '_')
layer_of(name) ==
  [k \in 1..Len(name) |->
     IF upper_char(name[k]) = " " THEN "_" ELSE upper_char(name[k])]

\* the zone of room_configs[i] (i counted from 0)
room_zone(i, version, file_size) ==
  LET room == room_configs[i + 1]
      width == room.width
      height == room.height
      x_offset == IF i = 0 THEN 0
                  ELSE IF i = 1 THEN width + Gap
                  ELSE IF i = 2 THEN 0
                  ELSE IF i = 3 THEN width + Gap
                  ELSE (i % 2) * GridX
      y_offset == IF i = 0 THEN 0
                  ELSE IF i = 1 THEN 0
                  ELSE IF i = 2 THEN height + Gap
                  ELSE IF i = 3 THEN height + Gap
                  ELSE (i \div 2) * GridY
  IN  [points |-> << << x_offset, y_offset >>,
                     << x_offset + width, y_offset >>,
                     << x_offset + width, y_offset + height >>,
                     << x_offset, y_offset + height >> >>,
       layer  |-> layer_of(room.name),
       type   |-> S("ARCHITECTURAL"),
       source |-> S("realistic_layout_from_") \o version,
       room_type |-> room.type,
       area   |-> whole(width * height),
       name   |-> room.name,
       generated_from_file |->
         version \o S(" (") \o str(file_size) \o S(" bytes)")]

\* _generate_realistic_zones stamping the bare version as source
_generate_realistic_zones_bare_source(an) ==
  LET version == get(an, "version", << >>)
      file_size == get(an, "file_size", 0)
  IN  [k \in 1..Len(Slice(room_configs, 0, RoomLimit)) |->
         [room_zone(k - 1, version, file_size) EXCEPT !.source = version]]

_generate_realistic_zones(an) ==
  LET version == get(an, "version", << >>)
      file_size == get(an, "file_size", 0)
  IN  [k \in 1..Len(Slice(room_configs, 0, RoomLimit)) |->
         room_zone(k - 1, version, file_size)]

-----------------------------------------------------------------------------
(* calculate_polygon_area and the validation loop of                       *)
(* parse_dwg_with_enhanced_parser                                          *)

\* the shoelace loop without the wrap-around of j (the closing edge is lost)
RECURSIVE shoelace_open_from(_, _, _)
shoelace_open_from(points, i, area) ==
  LET n == Len(points)
      j == i + 1
  IN  IF j >= n THEN area
      ELSE shoelace_open_from(points, i + 1,
             area + points[i + 1][1] * points[j + 1][2]
                  - points[j + 1][1] * points[i + 1][2])

\* the loop  for i in range(n)  from i on, area being the running sum
RECURSIVE shoelace_from(_, _, _)
shoelace_from(points, i, area) ==
  LET n == Len(points)
      j == (i + 1) % n
  IN  IF i >= n THEN area
      ELSE shoelace_from(points, i + 1,
             area + points[i + 1][1] * points[j + 1][2]
                  - points[j + 1][1] * points[i + 1][2])

calculate_polygon_area(points) ==
  IF Len(points) < 3 THEN whole(0)
  ELSE halved(abs(shoelace_from(points, 0, 0)))

\* validated computing bounds only when the zone carries none
validated_keeps_bounds(zone) ==
  LET with_area ==
        IF "area" \notin DOMAIN zone
        THEN zone @@ [area |-> calculate_polygon_area(zone.points)]
        ELSE zone
      xs == [k \in 1..Len(zone.points) |-> zone.points[k][1]]
      ys == [k \in 1..Len(zone.points) |-> zone.points[k][2]]
      bounds == << min(xs), min(ys), max(xs), max(ys) >>
  IN  [k \in (DOMAIN with_area) \cup {"bounds"} |->
         IF k = "bounds" /\ "bounds" \notin DOMAIN zone THEN bounds
         ELSE with_area[k]]

\* the body of the loop for a zone that passes the test
validated(zone) ==
  LET with_area ==
        IF "area" \notin DOMAIN zone
        THEN zone @@ [area |-> calculate_polygon_area(zone.points)]
        ELSE zone
      xs == [k \in 1..Len(zone.points) |-> zone.points[k][1]]
      ys == [k \in 1..Len(zone.points) |-> zone.points[k][2]]
      bounds == << min(xs), min(ys), max(xs), max(ys) >>
  IN  [k \in (DOMAIN with_area) \cup {"bounds"} |->
         IF k = "bounds" THEN bounds ELSE with_area[k]]

\* validate_zones keeping the zones of 2 points (>= 2 for >= 3)
RECURSIVE validate_zones_min2(_)
validate_zones_min2(zs) ==
  IF zs = << >> THEN << >>
  ELSE (IF "points" \in DOMAIN zs[1] /\ Len(zs[1].points) >= 2
        THEN << validated(zs[1]) >>
        ELSE << >>)
       \o validate_zones_min2(Tail(zs))

\* valid_zones after the loop over zs
RECURSIVE validate_zones(_)
validate_zones(zs) ==
  IF zs = << >> THEN << >>
  ELSE (IF "points" \in DOMAIN zs[1] /\ Len(zs[1].points) >= 3
        THEN << validated(zs[1]) >>
        ELSE << >>)
       \o validate_zones(Tail(zs))

-----------------------------------------------------------------------------
(* parse_dwg_file; shapely's Polygon is outside the repository: its length *)
(* is kept symbolic, and it raises on the zones numbered in rejected       *)

\* the rooms appended for zs[k..], k counted from 1
RECURSIVE rooms_from(_, _, _)
rooms_from(zs, k, rejected) ==
  IF k > Len(zs) THEN << >>
  ELSE LET zone == zs[k]
           room ==
             [points |-> zone.points,
              area   |-> IF k \in rejected
                         THEN get(zone, "area", whole(0))
                         ELSE get(zone, "area", [polygon_area |-> zone.points]),
              layer  |-> get(zone, "layer", S("Unknown")),
              perimeter |-> IF k \in rejected
                            THEN whole(0)
                            ELSE [polygon_length |-> zone.points],
              type   |-> get(zone, "type", S("Unknown")),
              source |-> get(zone, "source", S("parsed"))]
       IN  (IF "points" \in DOMAIN zone /\ Len(zone.points) >= 3
            THEN << room >> ELSE << >>)
           \o rooms_from(zs, k + 1, rejected)

parse_dwg_file_results(zs, rejected) ==
  [layers   |-> {get(zs[k], "layer", S("Unknown")) : k \in 1..Len(zs)},
   entities |-> [ROOMS |-> Len(zs)],
   rooms    |-> rooms_from(zs, 1, rejected)]

-----------------------------------------------------------------------------
(* The inputs: files and dxfgrabber environments *)

ZeroWord == << 0, 0, 0, 0 >>

\* as the high word of a double: exponent field 2047 (infinity or NaN);
\* as the low word under a zero high word: the denormal 2047 * 2^-1054
BadWord == << 0, 0, 240, 127 >>

\* n words, those numbered in bad being BadWord, then t zero bytes
body_data(n, bad, t) ==
  [p \in 1..(4 * n + t) |->
     IF ((p - 1) \div 4) + 1 \in bad THEN BadWord[((p - 1) % 4) + 1] ELSE 0]

\* the subsets of 1..n of at most k elements
RECURSIVE bad_sets(_, _)
bad_sets(n, k) ==
  IF k = 0 THEN { {} }
  ELSE LET fewer == bad_sets(n, k - 1)
       IN  fewer \cup { b \cup {w} : b \in fewer, w \in 1..n }

BodyFiles ==
  UNION { { [exists |-> TRUE, data |-> body_data(n, bad, t)] :
              bad \in bad_sets(n, MaxBad), t \in 0..MaxTail } :
          n \in 0..MaxWords }

UnknownSignature == bytes(<<"A","C","1","0","9","9">>)

\* a signature, two bytes that complete a NaN high word, a BadWord, k zero words
header_data(sig, k) ==
  sig \o << 240, 127 >> \o BadWord \o [p \in 1..(4 * k) |-> 0]

HeaderFiles ==
  { [exists |-> TRUE, data |-> header_data(sig, k)] :
      sig \in (DOMAIN dwg_version_signatures) \cup {UnknownSignature},
      k \in 0..MaxHeaderBody }

ShortFiles ==
  { [exists |-> TRUE, data |-> Slice(UnknownSignature, 0, n)] :
      n \in 0..(SignatureLen - 1) }

\* files of exactly the 6 bytes of a signature
SignatureFiles ==
  { [exists |-> TRUE, data |-> sig] :
      sig \in (DOMAIN dwg_version_signatures) \cup {UnknownSignature} }

MissingFile == [exists |-> FALSE, data |-> << >>]

Files ==
  BodyFiles \cup HeaderFiles \cup ShortFiles \cup SignatureFiles
  \cup {MissingFile}

Square == << <<0, 0>>, <<40, 0>>, <<40, 40>>, <<0, 40>> >>

Triangle == << <<10, 10, 0>>, <<50, 10, 0>>, <<10, 40, 0>> >>

Entities ==
  { [dxftype |-> "LWPOLYLINE", is_closed |-> TRUE, points |-> Square,
     layer |-> S("WALLS")],
    [dxftype |-> "LWPOLYLINE", is_closed |-> TRUE, points |-> Triangle],
    [dxftype |-> "LWPOLYLINE", is_closed |-> FALSE, points |-> Square,
     layer |-> S("WALLS")],
    [dxftype |-> "LWPOLYLINE", is_closed |-> TRUE,
     points |-> << <<0, 0>>, <<10, 10>> >>, layer |-> S("AXES")],
    [dxftype |-> "LINE", layer |-> S("AXES")],
    [handle |-> S("2F")] }

RECURSIVE lists_upto(_, _)
lists_upto(set, n) ==
  IF n = 0 THEN { << >> }
  ELSE LET shorter == lists_upto(set, n - 1)
       IN  shorter \cup { Append(l, e) : l \in shorter, e \in set }

Absent == [state |-> "absent", modelspace |-> << >>]

Throws == [state |-> "throws", modelspace |-> << >>]

Drawings ==
  { [state |-> "ok", modelspace |-> m] : m \in lists_upto(Entities, MaxEntities) }

\* the files a drawing is tried with: one the scanner finds patterns in, one
\* it finds none in
DrawingFiles ==
  { [exists |-> TRUE, data |-> body_data(12, {}, 0)],
    [exists |-> TRUE, data |-> header_data(UnknownSignature, 0)] }

\* the files readfile is made to raise on
ThrowFiles == DrawingFiles \cup ShortFiles \cup {MissingFile}

Inputs ==
  (Files \X {Absent}) \cup (ThrowFiles \X {Throws})
  \cup (DrawingFiles \X Drawings)

-----------------------------------------------------------------------------
(* The call chain parse_dwg_file -> parse_dwg_with_enhanced_parser ->      *)
(* extract_geometry_data                                                   *)

\* the variables of a direct call of calculate_polygon_area
call == << arg_points, ret_area >>

Init ==
  /\ \E in \in Inputs : file = in[1] /\ lib = in[2]
  /\ pc = "analyze"
  /\ arg_points = << >>
  /\ ret_area = whole(0)
  /\ analysis = Unset
  /\ calls = << >>
  /\ outcome = << >>
  /\ data = << >>
  /\ scan_i = 0
  /\ patterns = << >>
  /\ visited = {}
  /\ contributed = {}
  /\ zones = << >>
  /\ valid_zones = << >>
  /\ results = Unset
  /\ raised = FALSE

\* parse_dwg_with_enhanced_parser: parser.analyze_dwg_file(file_path), print
Analyze ==
  /\ pc = "analyze"
  /\ analysis' = analyze_dwg_file(file)
  /\ pc' = "dxfgrabber"
  /\ UNCHANGED call
  /\ UNCHANGED << file, lib, calls, outcome, data, scan_i, patterns, visited,
                  contributed, zones, valid_zones, results, raised >>

\* Returned without the test  if zones:  -- the cascade always goes on
Returned_falls_through(name, z, next) ==
  /\ outcome' = Append(outcome, << name, z >>)
  /\ zones' = z
  /\ pc' = next

\* a strategy returned the list z: return it when non-empty, else go to next
Returned(name, z, next) ==
  /\ outcome' = Append(outcome, << name, z >>)
  /\ IF z # << >>
     THEN zones' = z /\ pc' = "validate"
     ELSE zones' = zones /\ pc' = next

\* an exception leaves extract_geometry_data and parse_dwg_with_enhanced_parser
Escapes ==
  /\ raised' = TRUE
  /\ pc' = "convert"
  /\ UNCHANGED << outcome, zones >>

\* Strategy 1: zones = self._try_dxfgrabber(file_path); if zones: return zones
TryDxfgrabber ==
  /\ pc = "dxfgrabber"
  /\ calls' = Append(calls, "dxfgrabber")
  /\ LET r == _try_dxfgrabber(lib)
     IN  IF r.exc THEN Escapes
         ELSE Returned("dxfgrabber", r.val, "binary") /\ raised' = raised
  /\ UNCHANGED call
  /\ UNCHANGED << file, lib, analysis, data, scan_i, patterns, visited,
                  contributed, valid_zones, results >>

\* Strategy 2, first part: the file is read; except Exception: return []
TryBinaryAnalysis ==
  /\ pc = "binary"
  /\ calls' = Append(calls, "binary_analysis")
  /\ LET r == read_file(file)
     IN  IF r.exc
         THEN /\ Returned("binary_analysis", << >>, "generate")
              /\ UNCHANGED << data, scan_i, patterns >>
         ELSE /\ data' = r.val
              /\ scan_i' = 0
              /\ patterns' = << >>
              /\ pc' = "scan"
              /\ UNCHANGED << outcome, zones >>
  /\ UNCHANGED call
  /\ UNCHANGED << file, lib, analysis, visited, contributed, valid_zones,
                  results, raised >>

\* _find_coordinate_patterns: one iteration of  for i in range(0, len - 32, 4)
ScanOffset ==
  /\ pc = "scan"
  /\ scan_i < Len(data) - WindowLen
  /\ visited' = visited \cup {scan_i}
  /\ LET r == scan_window(data, scan_i, patterns)
     IN  IF r.exc /\ r.val \in {"struct.error", "OverflowError"}
         THEN \* continue
              /\ patterns' = patterns
              /\ contributed' = contributed
              /\ scan_i' = scan_i + Stride
              /\ pc' = "scan"
         ELSE IF r.exc
         THEN \* except Exception: pass
              /\ patterns' = patterns
              /\ contributed' = contributed
              /\ scan_i' = scan_i
              /\ pc' = "zones"
         ELSE /\ patterns' = r.val
              /\ contributed' = IF r.val # patterns
                                THEN contributed \cup {scan_i}
                                ELSE contributed
              /\ IF Len(r.val) >= PatternLimit
                 THEN scan_i' = scan_i /\ pc' = "zones"
                 ELSE scan_i' = scan_i + Stride /\ pc' = "scan"
  /\ UNCHANGED call
  /\ UNCHANGED << file, lib, analysis, calls, outcome, data, zones,
                  valid_zones, results, raised >>

\* _find_coordinate_patterns: the range is exhausted, return patterns
ScanEnd ==
  /\ pc = "scan"
  /\ scan_i >= Len(data) - WindowLen
  /\ pc' = "zones"
  /\ UNCHANGED call
  /\ UNCHANGED << file, lib, analysis, calls, outcome, data, scan_i, patterns,
                  visited, contributed, zones, valid_zones, results, raised >>

\* Strategy 2, second part: the zones of the patterns; if zones: return zones
BuildBinaryZones ==
  /\ pc = "zones"
  /\ Returned("binary_analysis", binary_zones(patterns), "generate")
  /\ UNCHANGED call
  /\ UNCHANGED << file, lib, analysis, calls, data, scan_i, patterns, visited,
                  contributed, valid_zones, results, raised >>

\* Strategy 3: analysis = self.analyze_dwg_file(file_path); return
\* self._generate_realistic_zones(analysis)
Generate ==
  /\ pc = "generate"
  /\ calls' = calls \o << "analyze_dwg_file", "realistic_zones" >>
  /\ LET z == _generate_realistic_zones(analyze_dwg_file(file))
     IN  /\ outcome' = Append(outcome, << "realistic_zones", z >>)
         /\ zones' = z
  /\ pc' = "validate"
  /\ UNCHANGED call
  /\ UNCHANGED << file, lib, analysis, data, scan_i, patterns, visited,
                  contributed, valid_zones, results, raised >>

\* parse_dwg_with_enhanced_parser: the loop over zones, return valid_zones
Validate ==
  /\ pc = "validate"
  /\ valid_zones' = validate_zones(zones)
  /\ pc' = "convert"
  /\ UNCHANGED call
  /\ UNCHANGED << file, lib, analysis, calls, outcome, data, scan_i, patterns,
                  visited, contributed, zones, results, raised >>

\* parse_dwg_file: the conversion to rooms, or the error of its except clause
Convert ==
  /\ pc = "convert"
  /\ IF raised
     THEN results' = [error |-> S("exception")]
     ELSE \E rejected \in bad_sets(Len(valid_zones), MaxRejected) :
            results' = parse_dwg_file_results(valid_zones, rejected)
  /\ pc' = "done"
  /\ UNCHANGED call
  /\ UNCHANGED << file, lib, analysis, calls, outcome, data, scan_i, patterns,
                  visited, contributed, zones, valid_zones, raised >>

Next ==
  \/ Analyze
  \/ TryDxfgrabber
  \/ TryBinaryAnalysis
  \/ ScanOffset
  \/ ScanEnd
  \/ BuildBinaryZones
  \/ Generate
  \/ Validate
  \/ Convert

Spec == Init /\ [][Next]_vars

-----------------------------------------------------------------------------
(* Properties of the cascade *)

Range(s) == { s[k] : k \in 1..Len(s) }

Order == << "dxfgrabber", "binary_analysis", "realistic_zones" >>

IsStrategy(c) == c \in Range(Order)

ExtractReturned == pc \in {"validate", "convert", "done"} /\ ~raised

\* the strategy called name has returned
HasReturned(name) == \E k \in 1..Len(outcome) : outcome[k][1] = name

\* C1: extract_geometry_data is a first-success fold over the order
\* (dxfgrabber, binary analysis, generator): the strategies are invoked in
\* that order, one is invoked only after every earlier one has returned an
\* empty list, the signature analysis and the generator run only after both
\* real strategies returned empty, and the list returned is the non-empty
\* result of the last strategy invoked.
C1_FirstSuccessFold ==
  LET invoked == SelectSeq(calls, IsStrategy)
  IN  /\ invoked = SubSeq(Order, 1, Len(invoked))
      /\ Len(outcome) <= Len(invoked)
      /\ \A k \in 1..Len(outcome) : outcome[k][1] = Order[k]
      /\ \A k \in 2..Len(invoked) :
           Len(outcome) >= k - 1 /\ outcome[k - 1][2] = << >>
      /\ "analyze_dwg_file" \in Range(calls) =>
           /\ Len(outcome) >= 2
           /\ outcome[1][2] = << >>
           /\ outcome[2][2] = << >>
      /\ ExtractReturned =>
           /\ Len(outcome) = Len(invoked)
           /\ zones = outcome[Len(outcome)][2]
           /\ zones # << >>

\* C1 witness: the structured reader yields zones for a file in which the
\* pattern scanner would find patterns too, and its zones are returned
C1_Witness ==
  /\ pc = "done"
  /\ Len(file.data) = 48
  /\ \A p \in 1..Len(file.data) : file.data[p] = 0
  /\ Len(outcome) = 1
  /\ Len(zones) = 2

\* C2, as claimed: when the path does not exist, parse_dwg_file (and
\* parse_dwg_with_enhanced_parser under it) ends in an error result and not
\* in a list of rooms.
C2_MissingPathIsError ==
  (pc = "done" /\ ~file.exists) =>
     /\ "error" \in DOMAIN results
     /\ valid_zones = << >>

\* C3: extract_geometry_data never raises and returns a non-empty list,
\* whatever fails inside the strategies; when the signature analyzer returns
\* an error record the generator runs with version '' and file size 0.
C3_NeverRaisesNeverEmpty ==
  /\ ~raised
  /\ pc \in {"validate", "convert", "done"} => zones # << >>
  /\ (HasReturned("realistic_zones")
        /\ "error" \in DOMAIN analyze_dwg_file(file)) =>
       \A k \in 1..Len(zones) :
         /\ zones[k].source = S("realistic_layout_from_")
         /\ zones[k].generated_from_file = S(" (") \o S("0") \o S(" bytes)")

\* C3 witness: the library is absent, the file cannot be opened by the
\* scanner nor by the analyzer, and the generator's five zones are returned
C3_Witness ==
  /\ pc = "done"
  /\ ~file.exists
  /\ lib.state = "absent"
  /\ Len(zones) = 5
  /\ zones[1].source = S("realistic_layout_from_")

StrategyOfSource(source) ==
  IF source = S("dxfgrabber") THEN "dxfgrabber"
  ELSE IF source = S("binary_analysis") THEN "binary_analysis"
  ELSE IF Len(source) >= 1 /\ source[1] = "realistic_layout_from_"
       THEN "realistic_zones"
  ELSE None

\* C4: all zones of a list returned by parse_dwg_with_enhanced_parser, and
\* all rooms parse_dwg_file makes of them, carry the source tag of one and
\* the same strategy, the one whose result extract_geometry_data returned.
C4_OneSourcePerList ==
  (pc \in {"convert", "done"} /\ ~raised) =>
     /\ valid_zones # << >>
     /\ \A k \in 1..Len(valid_zones) :
          StrategyOfSource(valid_zones[k].source)
            = outcome[Len(outcome)][1]
     /\ pc = "done" =>
          \A k \in 1..Len(results.rooms) :
            StrategyOfSource(results.rooms[k].source)
              = outcome[Len(outcome)][1]

\* C4 witness: a list of several binary-analysis zones was returned for a
\* file with a known signature
C4_Witness ==
  /\ pc = "done"
  /\ Len(results.rooms) >= 2
  /\ results.rooms[1].source = S("binary_analysis")
  /\ "version" \in DOMAIN analysis
  /\ analysis.version = S("AutoCAD R14")

-----------------------------------------------------------------------------
(* Properties of the signature analyzer and of the pattern scanner *)

\* C8: analyze_dwg_file returns a record with only an error field when the
\* file cannot be opened or has fewer than 6 bytes; otherwise the version is
\* the table entry of the first 6 bytes when they are one of the 12 known
\* signatures (AC1014 gives 'AutoCAD R14') and starts with 'Unknown (' when
\* they are not.
C8_SignatureClassification ==
  /\ Cardinality(DOMAIN dwg_version_signatures) = 12
  /\ pc # "analyze" =>
       IF ~file.exists \/ Len(file.data) < 6
       THEN DOMAIN analysis = {"error"}
       ELSE LET first6 == SubSeq(file.data, 1, 6)
            IN  /\ "error" \notin DOMAIN analysis
                /\ first6 \in DOMAIN dwg_version_signatures =>
                     analysis.version = dwg_version_signatures[first6]
                /\ first6 = << 65, 67, 49, 48, 49, 52 >> =>
                     analysis.version = << "AutoCAD R14" >>
                /\ first6 \notin DOMAIN dwg_version_signatures =>
                     analysis.version[1] = "Unknown ("

\* C8 witness: a file of exactly 6 bytes that are no known signature has been
\* classified as unknown
C8_Witness ==
  /\ pc = "done"
  /\ Len(file.data) = 6
  /\ "version" \in DOMAIN analysis
  /\ analysis.version[1] = "Unknown ("
  /\ analysis.file_size = 6

\* the pairs j of the window at offset i whose two doubles lie wholly in the
\* buffer and strictly inside (-1000000, 1000000)
AcceptedPairs(d, i) ==
  { j \in {0, 8, 16, 24} :
      /\ i + j + 16 <= Len(d)
      /\ in_range(unpack_d(Slice(d, i + j, i + j + 8)).val)
      /\ in_range(unpack_d(Slice(d, i + j + 8, i + j + 16)).val) }

\* C9, as claimed: every offset the scan has visited whose window holds at
\* least 3 accepted pairs has contributed a candidate pattern, the last
\* offsets before the end of the buffer included.
C9_EveryQualifyingOffsetContributes ==
  \A i \in visited :
    Cardinality(AcceptedPairs(data, i)) >= 3 => i \in contributed

C10_ScanInvariant ==
  /\ pc = "scan" => scan_i >= 0 /\ scan_i <= Max2(0, Len(data) - 32 + 3)
  /\ Len(patterns) <= 10
  /\ \A k \in 1..Len(patterns) :
       Len(patterns[k]) >= 3 /\ Len(patterns[k]) <= 4
  /\ HasReturned("binary_analysis") =>
       LET built == outcome[2][2]
       IN  /\ Len(built) = Min2(5, Len(patterns))
           /\ \A k \in 1..Len(built) :
                /\ built[k].layer = << "EXTRACTED_", Digits[k] >>
                /\ built[k].points = patterns[k]

\* a step that stays in the loop moves i forward
C10_ScanProgress == (pc = "scan" /\ pc' = "scan") => scan_i' > scan_i

MinX(z) == min([k \in 1..Len(z.points) |-> z.points[k][1]])

MaxX(z) == max([k \in 1..Len(z.points) |-> z.points[k][1]])

MinY(z) == min([k \in 1..Len(z.points) |-> z.points[k][2]])

MaxY(z) == max([k \in 1..Len(z.points) |-> z.points[k][2]])

\* two rectangles share interior points
InteriorsOverlap(a, b) ==
  /\ MinX(a) < MaxX(b) /\ MinX(b) < MaxX(a)
  /\ MinY(a) < MaxY(b) /\ MinY(b) < MaxY(a)

\* the list the generator returned, once it has
GeneratedLayout == outcome[Len(outcome)][2]

\* C11, as claimed: the 5 generated rectangles are laid out by adjacency to
\* the first room: room 1 has its corner at the origin, room 2 starts at room
\* 1's max x plus the gap 0.5, room 3 starts at room 1's max y plus 0.5, room
\* 4 is diagonal to room 1 (past both), room 5 is on the two-column grid, and
\* no two rectangles overlap in their interiors.
C11_AdjacentLayoutNoOverlap ==
  HasReturned("realistic_zones") =>
    LET z == GeneratedLayout
    IN  /\ Len(z) = 5
        /\ MinX(z[1]) = 0 /\ MinY(z[1]) = 0
        /\ MinX(z[2]) = MaxX(z[1]) + Gap /\ MinY(z[2]) = 0
        /\ MinX(z[3]) = 0 /\ MinY(z[3]) = MaxY(z[1]) + Gap
        /\ MinX(z[4]) = MaxX(z[1]) + Gap /\ MinY(z[4]) = MaxY(z[1]) + Gap
        /\ MinX(z[5]) = (4 % 2) * GridX /\ MinY(z[5]) = (4 \div 2) * GridY
        /\ \A a, b \in 1..Len(z) : a # b => ~InteriorsOverlap(z[a], z[b])

-----------------------------------------------------------------------------
(* The validation loop and calculate_polygon_area on arbitrary arguments   *)

MaxPoints == 4       \* points of a raw zone, and of a polygon argument
MaxRawZones == 3     \* zones in a raw list of several zones

\* coordinates are whole numbers here
Grid == { << x, y >> : x \in {0, 1, 4}, y \in {0, 4} }

PointLists == lists_upto(Grid, MaxPoints)

StaleBounds == << 9, 9, 9, 9 >>

RawZonesOf(points) ==
  { [points |-> points, layer |-> S("A"), type |-> S("T"),
     source |-> S("dxfgrabber")],
    [points |-> points, layer |-> S("B"), type |-> S("T"),
     source |-> S("dxfgrabber"), bounds |-> StaleBounds],
    [points |-> points, layer |-> S("C"), type |-> S("T"),
     source |-> S("dxfgrabber"), area |-> whole(99)] }

SquareExample == << <<0, 0>>, <<4, 0>>, <<4, 4>>, <<0, 4>> >>

SampleZones ==
  { [points |-> << <<0, 0>>, <<1, 4>> >>, layer |-> S("TWO"),
     type |-> S("T"), source |-> S("dxfgrabber")],
    [points |-> SquareExample, layer |-> S("SQUARE"),
     type |-> S("T"), source |-> S("dxfgrabber")],
    [points |-> << <<1, 0>>, <<4, 0>>, <<1, 4>> >>, layer |-> S("TRIANGLE"),
     type |-> S("T"), source |-> S("dxfgrabber"), bounds |-> StaleBounds],
    [layer |-> S("NOPOINTS"), type |-> S("T"), source |-> S("dxfgrabber")] }

RawZoneLists ==
  { << z >> : z \in UNION { RawZonesOf(points) : points \in PointLists } }
  \cup lists_upto(SampleZones, MaxRawZones)

Idle ==
  /\ file = MissingFile
  /\ lib = Absent
  /\ analysis = Unset
  /\ calls = << >>
  /\ outcome = << >>
  /\ data = << >>
  /\ scan_i = 0
  /\ patterns = << >>
  /\ visited = {}
  /\ contributed = {}
  /\ results = Unset
  /\ raised = FALSE

\* the validation loop entered with an arbitrary raw list
InitValidate ==
  /\ Idle
  /\ zones \in RawZoneLists
  /\ valid_zones = << >>
  /\ pc = "validate"
  /\ arg_points = << >>
  /\ ret_area = whole(0)

NextValidate == Validate

SpecValidate == InitValidate /\ [][NextValidate]_vars

\* calculate_polygon_area(points) called directly
CallArea ==
  /\ pc = "call"
  /\ ret_area' = calculate_polygon_area(arg_points)
  /\ pc' = "returned"
  /\ UNCHANGED << file, lib, analysis, calls, outcome, data, scan_i, patterns,
                  visited, contributed, zones, valid_zones, results, raised,
                  arg_points >>

InitArea ==
  /\ Idle
  /\ zones = << >>
  /\ valid_zones = << >>
  /\ pc = "call"
  /\ arg_points \in PointLists
  /\ ret_area = whole(0)

NextArea == CallArea

SpecArea == InitArea /\ [][NextArea]_vars

\* the indices of the raw zones that have at least 3 points
Kept == { k \in 1..Len(zones) :
            "points" \in DOMAIN zones[k] /\ Len(zones[k].points) >= 3 }

\* the n-th element of a set of indices, in increasing order
Nth(set, n) == CHOOSE i \in set : Cardinality({ m \in set : m <= i }) = n

\* C5: the loop drops every raw zone with fewer than 3 points or without
\* points and keeps every other zone, in the original order: the output is
\* never longer than the input, no output zone has fewer than 3 points, and
\* each dropped zone shortens the output by exactly 1.
C5_DropsDegenerateZones ==
  pc = "convert" =>
    /\ Len(valid_zones) <= Len(zones)
    /\ Len(valid_zones) = Len(zones) - Cardinality((1..Len(zones)) \ Kept)
    /\ \A k \in 1..Len(valid_zones) :
         /\ Len(valid_zones[k].points) >= 3
         /\ \A key \in DOMAIN zones[Nth(Kept, k)] \ {"bounds", "area"} :
              valid_zones[k][key] = zones[Nth(Kept, k)][key]

\* C5 witness: a list of three zones, the middle one of 2 points, came out as
\* the two others
C5_Witness ==
  /\ pc = "convert"
  /\ Len(zones) = 3
  /\ "points" \in DOMAIN zones[2]
  /\ Len(zones[2].points) = 2
  /\ Len(valid_zones) = 2
  /\ valid_zones[1].layer = S("SQUARE")
  /\ valid_zones[2].layer = S("TRIANGLE")

\* C6: the bounds of every output zone are the least and greatest x and y
\* over that zone's points, whether or not the raw zone carried bounds.
C6_BoundsRecomputed ==
  pc = "convert" =>
    \A k \in 1..Len(valid_zones) :
      LET b == valid_zones[k].bounds
          pts == Range(valid_zones[k].points)
      IN  /\ \A q \in pts : b[1] <= q[1] /\ q[1] <= b[3]
          /\ \A q \in pts : b[2] <= q[2] /\ q[2] <= b[4]
          /\ \E q \in pts : q[1] = b[1]
          /\ \E q \in pts : q[2] = b[2]
          /\ \E q \in pts : q[1] = b[3]
          /\ \E q \in pts : q[2] = b[4]

\* C6 witness: a raw zone that carried wrong bounds came out with others
C6_Witness ==
  /\ pc = "convert"
  /\ Len(valid_zones) = 1
  /\ "bounds" \in DOMAIN zones[1]
  /\ zones[1].bounds = StaleBounds
  /\ valid_zones[1].bounds = << 1, 0, 4, 4 >>

\* the sequence rotated left by r, and the sequence reversed
Rotated(s, r) == [k \in 1..Len(s) |-> s[((k - 1 + r) % Len(s)) + 1]]

Reversed(s) == [k \in 1..Len(s) |-> s[Len(s) + 1 - k]]

====
